---------------------------- MODULE Spec2Model ----------------------------
(***************************************************************************)
(* Model of the LKS zero-fee hook, zero_fee_hook.rs.                       *)
(*                                                                         *)
(* The host invokes hook() once per transaction.  The hook asks the host   *)
(* for the transaction type, reads the Fee and Amount fields through       *)
(* numbered slots, and either zeroes the Fee slot and accepts, accepts     *)
(* unchanged, or rejects.  The host side (the transaction's fields and the *)
(* log of host calls) is the environment; everything else is the hook.     *)
(***************************************************************************)
EXTENDS Integers, Sequences, FiniteSets, TLC

\* ------------------------------------------------------------ constants

TX_TYPE_PAYMENT == 0
TX_TYPE_OFFER_CREATE == 7
TX_TYPE_OFFER_CANCEL == 8
LKS_TRANSFER_TYPE == 1234

S_FEE == 1
S_ACCOUNT == 2
S_DESTINATION == 3
S_AMOUNT == 4

\* [0u8; 8] and [0u8; 64]
FEE_BUFFER_LEN == 8
AMOUNT_BUFFER_LEN == 64

\* b'L', b'K', b'S'
ByteL == 76
ByteK == 75
ByteS == 83

\* ------------------------------------------------------------ bounds

\* Original fees of the transactions submitted: 0..MaxFee and one value
\* whose second byte is set.
MaxFee == 1

\* ------------------------------------------------------------ byte helpers

RECURSIVE ToLeBytesN(_, _)
ToLeBytesN(v, k) ==
    IF k = 0 THEN <<>> ELSE <<v % 256>> \o ToLeBytesN(v \div 256, k - 1)

\* u64::to_le_bytes
ToLeBytes(v) == ToLeBytesN(v, FEE_BUFFER_LEN)

RECURSIVE FromLeBytesAt(_, _)
FromLeBytesAt(b, i) ==
    IF i > Len(b) THEN 0 ELSE b[i] + 256 * FromLeBytesAt(b, i + 1)

\* u64::from_le_bytes
FromLeBytes(b) == FromLeBytesAt(b, 1)

Zeros(k) == [i \in 1..k |-> 0]

\* ------------------------------------------------------------ host side

Slots == {S_FEE, S_ACCOUNT, S_DESTINATION, S_AMOUNT}

\* otxn_slot's return value: the bytes written, negative when the field is
\* absent from the transaction.
OtxnSlotResult(slotContent, isMissing, cap) ==
    IF isMissing THEN -1
    ELSE IF Len(slotContent) > cap THEN cap
    ELSE Len(slotContent)

\* The caller's zero-initialised buffer of cap bytes after otxn_slot wrote
\* its result's worth of bytes into it.
OtxnSlotBuffer(slotContent, isMissing, cap) ==
    [i \in 1..cap |->
        IF i <= OtxnSlotResult(slotContent, isMissing, cap)
        THEN slotContent[i] ELSE 0]

Call(fn, slot, len, value, data, msg) ==
    [fn |-> fn, slot |-> slot, len |-> len, value |-> value,
     data |-> data, msg |-> msg]

CallOtxnType == Call("otxn_type", 0, 0, 0, <<>>, "")
CallTrace(msg, value) == Call("trace_u64", 0, 0, value, <<>>, msg)
CallOtxnSlot(slot, len) == Call("otxn_slot", slot, len, 0, <<>>, "")
CallSlotSet(slot, data, len) == Call("slot_set", slot, len, 0, data, "")
CallAccept(msg) == Call("accept", 0, 0, 0, <<>>, msg)
CallReject(msg) == Call("reject", 0, 0, 0, <<>>, msg)

\* ------------------------------------------------------------ inputs

OtherTypes == {3, 9}
TxTypes == {TX_TYPE_PAYMENT, TX_TYPE_OFFER_CREATE, TX_TYPE_OFFER_CANCEL,
            LKS_TRANSFER_TYPE} \cup OtherTypes

FeeValues == (0..MaxFee) \cup {256}

\* Fee fields a transaction may carry: a well-formed 8-byte fee, or a
\* malformed one of 0 or 4 bytes.
FeeFields == {ToLeBytes(v) : v \in FeeValues} \cup {<<>>, <<1, 0, 0, 0>>}

Signature == <<ByteL, ByteK, ByteS>>

PlaceAt(pat, p) ==
    [i \in 1..AMOUNT_BUFFER_LEN |->
        IF i > p /\ i <= p + Len(pat) THEN pat[i - p] ELSE 85]

SigOffsets == {0, 1, 30, AMOUNT_BUFFER_LEN - 3}

\* 64-byte windows of amount encodings: no signature, the signature at some
\* offsets, and near misses.
AmountWindows ==
    {PlaceAt(<<>>, 0)}
    \cup {PlaceAt(Signature, p) : p \in SigOffsets}
    \cup {PlaceAt(<<ByteL, ByteK, 88>>, 0),
          PlaceAt(<<ByteL, ByteL, ByteK, ByteS>>, 5),
          PlaceAt(<<ByteL, ByteK>>, AMOUNT_BUFFER_LEN - 2)}

\* Amount fields of every length 0..64.
AmountFields ==
    {SubSeq(w, 1, n) : w \in AmountWindows, n \in 0..AMOUNT_BUFFER_LEN}

\* ------------------------------------------------------------ state

VARIABLES
    tx_type,          \* the transaction's type code (otxn_type)
    otxn,             \* the originating transaction as submitted: fields, missing
    slots,            \* the transaction's fields as the host holds them, by slot id
    missing,          \* slot ids whose field the transaction does not carry
    overflow_checks,  \* build profile: arithmetic overflow panics (TRUE) or wraps
    pc,               \* the hook's position
    original_fee,     \* handle_lks_transfer's local
    detected,         \* the detector's result, once it returned
    calls,            \* host calls made by this invocation, in order
    ret,              \* <<v>> once hook() returned v
    history           \* outcomes of earlier invocations

vars == <<tx_type, otxn, slots, missing, overflow_checks, pc, original_fee,
          detected, calls, ret, history>>

\* ------------------------------------------------------------ dispatch

IsTransferType(t) == t = LKS_TRANSFER_TYPE \/ t = TX_TYPE_PAYMENT

\* Fault variant of IsDexType: a range test instead of the two codes.
IsDexTypeRange(t) == t >= TX_TYPE_OFFER_CREATE

IsDexType(t) == t = TX_TYPE_OFFER_CREATE \/ t = TX_TYPE_OFFER_CANCEL

\* ------------------------------------------------------------ detector

\* usize on wasm32 is 32 bits wide; a value is kept as <<high 16, low 16>>.
UsizeSub(a, b) ==
    IF a >= b THEN <<0, a - b>> ELSE <<65535, 65536 + a - b>>

UsizeLess(i, u) == u[1] > 0 \/ i < u[2]

Indexable(i) == i < AMOUNT_BUFFER_LEN

RECURSIVE Scan(_, _, _)
\* The for loop over i in 0..bound, with the bounds check of every index.
Scan(buf, bound, i) ==
    IF ~UsizeLess(i, bound) THEN "false"
    ELSE IF ~Indexable(i) THEN "panic"
    ELSE IF buf[i + 1] # ByteL THEN Scan(buf, bound, i + 1)
    ELSE IF ~Indexable(i + 1) THEN "panic"
    ELSE IF buf[i + 2] # ByteK THEN Scan(buf, bound, i + 1)
    ELSE IF ~Indexable(i + 2) THEN "panic"
    ELSE IF buf[i + 3] = ByteS THEN "true"
    ELSE Scan(buf, bound, i + 1)

\* Fault variant of ScanBound: the loop stops one offset early.
ScanBoundShort(amount_result) == UsizeSub(amount_result, 3)

\* amount_result as usize - 2
ScanBound(amount_result) == UsizeSub(amount_result, 2)

\* "true", "false", or "panic" when the function does not return.
IsLksCoinTransaction(amount_result, amount_buffer, checks) ==
    IF amount_result <= 0 THEN "false"
    ELSE IF checks /\ amount_result < 2 THEN "panic"
    ELSE Scan(amount_buffer, ScanBound(amount_result), 0)

IsLksCoinDexOperation(amount_result, amount_buffer, checks) ==
    IsLksCoinTransaction(amount_result, amount_buffer, checks)

\* ------------------------------------------------------------ Init

Init ==
    /\ tx_type \in TxTypes
    /\ \E fee \in FeeFields, amount \in AmountFields :
          slots = [s \in Slots |->
                      CASE s = S_FEE -> fee
                        [] s = S_AMOUNT -> amount
                        [] s = S_ACCOUNT -> [i \in 1..20 |-> 17]
                        [] OTHER -> [i \in 1..20 |-> 34]]
    /\ missing \in {{}, {S_FEE}, {S_AMOUNT}}
    /\ \A s \in missing : slots[s] = <<>>
    /\ otxn = [fields |-> slots, missing |-> missing]
    /\ overflow_checks \in BOOLEAN
    /\ pc = "hook"
    /\ original_fee = 0
    /\ detected = FALSE
    /\ calls = <<>>
    /\ ret = <<>>
    /\ history = <<>>

\* ------------------------------------------------------------ hook()

Emit(cs) == calls' = calls \o cs

Return(v) == ret' = <<v>> /\ pc' = "returned"

\* hook(): the type query, the trace, and the dispatch.
Hook ==
    /\ pc = "hook"
    /\ \/ /\ IsTransferType(tx_type)
          /\ Emit(<<CallOtxnType, CallTrace("Processing transaction type", tx_type)>>)
          /\ pc' = "handle_lks_transfer"
          /\ UNCHANGED ret
       \/ /\ ~IsTransferType(tx_type)
          /\ IsDexType(tx_type)
          /\ Emit(<<CallOtxnType, CallTrace("Processing transaction type", tx_type)>>)
          /\ pc' = "handle_dex_operation"
          /\ UNCHANGED ret
       \/ /\ ~IsTransferType(tx_type)
          /\ ~IsDexType(tx_type)
          /\ Emit(<<CallOtxnType, CallTrace("Processing transaction type", tx_type),
                    CallAccept("Transaction type not handled by LKS zero-fee hook")>>)
          /\ Return(0)
    /\ UNCHANGED <<tx_type, otxn, slots, missing, overflow_checks, original_fee,
                   detected, history>>

\* ------------------------------------------------------------ handle_lks_transfer()

\* Fault variant of FeeReadOk: any positive length passes.
FeeReadOkLenient(fee_result) == fee_result > 0

FeeReadOk(fee_result) == fee_result = FEE_BUFFER_LEN

\* Fault variant of HandleLksTransfer: the failure path returns 0.
HandleLksTransferReturningZero ==
    /\ pc = "handle_lks_transfer"
    /\ LET fee_result == OtxnSlotResult(slots[S_FEE], S_FEE \in missing, FEE_BUFFER_LEN)
           fee_buffer == OtxnSlotBuffer(slots[S_FEE], S_FEE \in missing, FEE_BUFFER_LEN)
       IN  \/ /\ ~FeeReadOk(fee_result)
              /\ Emit(<<CallOtxnSlot(S_FEE, FEE_BUFFER_LEN),
                        CallReject("Failed to read transaction fee")>>)
              /\ Return(0)
              /\ UNCHANGED original_fee
           \/ /\ FeeReadOk(fee_result)
              /\ Emit(<<CallOtxnSlot(S_FEE, FEE_BUFFER_LEN)>>)
              /\ original_fee' = FromLeBytes(fee_buffer)
              /\ pc' = "transfer_detect"
              /\ UNCHANGED ret
    /\ UNCHANGED <<tx_type, otxn, slots, missing, overflow_checks, detected, history>>

\* The fee read and its length check.
HandleLksTransfer ==
    /\ pc = "handle_lks_transfer"
    /\ LET fee_result == OtxnSlotResult(slots[S_FEE], S_FEE \in missing, FEE_BUFFER_LEN)
           fee_buffer == OtxnSlotBuffer(slots[S_FEE], S_FEE \in missing, FEE_BUFFER_LEN)
       IN  \/ /\ ~FeeReadOk(fee_result)
              /\ Emit(<<CallOtxnSlot(S_FEE, FEE_BUFFER_LEN),
                        CallReject("Failed to read transaction fee")>>)
              /\ Return(-1)
              /\ UNCHANGED original_fee
           \/ /\ FeeReadOk(fee_result)
              /\ Emit(<<CallOtxnSlot(S_FEE, FEE_BUFFER_LEN)>>)
              /\ original_fee' = FromLeBytes(fee_buffer)
              /\ pc' = "transfer_detect"
              /\ UNCHANGED ret
    /\ UNCHANGED <<tx_type, otxn, slots, missing, overflow_checks, detected, history>>

\* The detector's outcome on the transaction's Amount field.
Detection(isDex) ==
    LET amount_result ==
            OtxnSlotResult(slots[S_AMOUNT], S_AMOUNT \in missing, AMOUNT_BUFFER_LEN)
        amount_buffer ==
            OtxnSlotBuffer(slots[S_AMOUNT], S_AMOUNT \in missing, AMOUNT_BUFFER_LEN)
    IN  IF isDex
        THEN IsLksCoinDexOperation(amount_result, amount_buffer, overflow_checks)
        ELSE IsLksCoinTransaction(amount_result, amount_buffer, overflow_checks)

\* The call of the detector: it returns its result, or panics.
Detect(at, isDex, next) ==
    /\ pc = at
    /\ Emit(<<CallOtxnSlot(S_AMOUNT, AMOUNT_BUFFER_LEN)>>)
    /\ IF Detection(isDex) = "panic"
       THEN pc' = "panicked" /\ UNCHANGED detected
       ELSE pc' = next /\ detected' = (Detection(isDex) = "true")
    /\ UNCHANGED <<tx_type, otxn, slots, missing, overflow_checks, original_fee,
                   ret, history>>

TransferDetect == Detect("transfer_detect", FALSE, "transfer_branch")

\* slot_set on the host: the field is overwritten.
SlotSet(slot, data) ==
    /\ slots' = [slots EXCEPT ![slot] = data]
    /\ missing' = missing \ {slot}

\* Fault variant of SponsorSlot: the Amount slot is written.
SponsorSlotAmount == S_AMOUNT

\* The slot the sponsoring branches write.
SponsorSlot == S_FEE

\* Fault variant of SponsoredFee: the original fee is written back.
SponsoredFeeOriginal == ToLeBytes(original_fee)

\* zero_fee = 0u64.to_le_bytes()
SponsoredFee == ToLeBytes(0)

\* The LKS branch up to its trace: the Fee slot is zeroed.
TransferSponsor ==
    /\ pc = "transfer_branch"
    /\ detected
    /\ SlotSet(SponsorSlot, SponsoredFee)
    /\ Emit(<<CallSlotSet(SponsorSlot, SponsoredFee, FEE_BUFFER_LEN),
              CallTrace("LKS COIN transaction fee sponsored by foundation",
                        original_fee)>>)
    /\ pc' = "transfer_accept"
    /\ UNCHANGED <<tx_type, otxn, overflow_checks, original_fee, detected, ret, history>>

TransferAccept ==
    /\ pc = "transfer_accept"
    /\ Emit(<<CallAccept("Zero-fee LKS COIN transaction accepted")>>)
    /\ Return(0)
    /\ UNCHANGED <<tx_type, otxn, slots, missing, overflow_checks, original_fee,
                   detected, history>>

TransferPass ==
    /\ pc = "transfer_branch"
    /\ ~detected
    /\ Emit(<<CallAccept("Non-LKS transaction processed normally")>>)
    /\ Return(0)
    /\ UNCHANGED <<tx_type, otxn, slots, missing, overflow_checks, original_fee,
                   detected, history>>

\* ------------------------------------------------------------ handle_dex_operation()

DexDetect == Detect("handle_dex_operation", TRUE, "dex_branch")

DexSponsor ==
    /\ pc = "dex_branch"
    /\ detected
    /\ SlotSet(SponsorSlot, SponsoredFee)
    /\ Emit(<<CallSlotSet(SponsorSlot, SponsoredFee, FEE_BUFFER_LEN),
              CallTrace("LKS COIN DEX operation fee sponsored", 0)>>)
    /\ pc' = "dex_accept"
    /\ UNCHANGED <<tx_type, otxn, overflow_checks, original_fee, detected, ret, history>>

DexAccept ==
    /\ pc = "dex_accept"
    /\ Emit(<<CallAccept("Zero-fee LKS COIN DEX operation accepted")>>)
    /\ Return(0)
    /\ UNCHANGED <<tx_type, otxn, slots, missing, overflow_checks, original_fee,
                   detected, history>>

\* Fault variant of DexPass: the non-LKS branch rejects.
DexPassRejecting ==
    /\ pc = "dex_branch"
    /\ ~detected
    /\ Emit(<<CallReject("Non-LKS DEX operation processed normally")>>)
    /\ Return(-1)
    /\ UNCHANGED <<tx_type, otxn, slots, missing, overflow_checks, original_fee,
                   detected, history>>

DexPass ==
    /\ pc = "dex_branch"
    /\ ~detected
    /\ Emit(<<CallAccept("Non-LKS DEX operation processed normally")>>)
    /\ Return(0)
    /\ UNCHANGED <<tx_type, otxn, slots, missing, overflow_checks, original_fee,
                   detected, history>>

\* ------------------------------------------------------------ panic handler

\* loop {}: the invocation never returns.
Panic ==
    /\ pc = "panicked"
    /\ UNCHANGED vars

\* ------------------------------------------------------------ specifications

Next ==
    \/ Hook
    \/ HandleLksTransfer
    \/ TransferDetect
    \/ TransferSponsor
    \/ TransferAccept
    \/ TransferPass
    \/ DexDetect
    \/ DexSponsor
    \/ DexAccept
    \/ DexPass
    \/ Panic

Spec == Init /\ [][Next]_vars

\* ------------------------------------------------------------ fee variants

Signals == SelectSeq(calls, LAMBDA c : c.fn \in {"accept", "reject"})

SignalNames == [i \in 1..Len(Signals) |-> Signals[i].fn]

Ended == pc \in {"returned", "panicked"}

\* The host, once an invocation on a payment/transfer transaction with a
\* well-formed fee has ended (returned, or been aborted in its panic loop),
\* invokes the hook on a transaction of the same type and Amount whose
\* 8-byte fee differs.
InvokeFeeVariant ==
    /\ Ended
    /\ history = <<>>
    /\ IsTransferType(tx_type)
    /\ S_FEE \notin otxn.missing
    /\ Len(otxn.fields[S_FEE]) = FEE_BUFFER_LEN
    /\ \E v \in FeeValues :
          /\ ToLeBytes(v) # otxn.fields[S_FEE]
          /\ otxn' = [otxn EXCEPT !.fields[S_FEE] = ToLeBytes(v)]
    /\ slots' = otxn'.fields
    /\ missing' = otxn.missing
    /\ history' = <<[pc |-> pc, ret |-> ret, signals |-> SignalNames,
                     fee_slot |-> slots[S_FEE], detected |-> detected,
                     original_fee |-> original_fee]>>
    /\ pc' = "hook"
    /\ original_fee' = 0
    /\ detected' = FALSE
    /\ calls' = <<>>
    /\ ret' = <<>>
    /\ UNCHANGED <<tx_type, overflow_checks>>

PairNext == Next \/ InvokeFeeVariant

PairSpec == Init /\ [][PairNext]_vars

\* ------------------------------------------------------------ observations

\* The transaction types the claims speak of, by their codes.
PaymentOrTransfer == tx_type \in {TX_TYPE_PAYMENT, LKS_TRANSFER_TYPE}

ExchangeOrder == tx_type \in {TX_TYPE_OFFER_CREATE, TX_TYPE_OFFER_CANCEL}

CallsOf(fn) == SelectSeq(calls, LAMBDA c : c.fn = fn)

CallNames == [i \in 1..Len(calls) |-> calls[i].fn]

\* What the Fee and Amount reads of the submitted transaction return.
FeeResult == OtxnSlotResult(otxn.fields[S_FEE], S_FEE \in otxn.missing, FEE_BUFFER_LEN)

AmountResult ==
    OtxnSlotResult(otxn.fields[S_AMOUNT], S_AMOUNT \in otxn.missing, AMOUNT_BUFFER_LEN)

\* The reference predicate: the signature lies at some offset i, 0 <= i <= n-3,
\* of the n bytes read.
AmountContainsSignature ==
    /\ AmountResult >= 3
    /\ \E i \in 0..(AmountResult - 3) :
          /\ otxn.fields[S_AMOUNT][i + 1] = ByteL
          /\ otxn.fields[S_AMOUNT][i + 2] = ByteK
          /\ otxn.fields[S_AMOUNT][i + 3] = ByteS

Untouched == slots = otxn.fields /\ missing = otxn.missing /\ CallsOf("slot_set") = <<>>

FeeZeroed ==
    /\ slots[S_FEE] = Zeros(FEE_BUFFER_LEN)
    /\ CallsOf("slot_set") = <<CallSlotSet(S_FEE, Zeros(FEE_BUFFER_LEN), FEE_BUFFER_LEN)>>

\* The detector has been called and the invocation has moved on.
PastDetector ==
    pc \in {"transfer_branch", "transfer_accept", "dex_branch", "dex_accept",
            "panicked"}
    \/ (pc = "returned" /\ \E i \in 1..Len(calls) :
                              calls[i].fn = "otxn_slot" /\ calls[i].slot = S_AMOUNT)

\* ------------------------------------------------------------ claims

\* C1: when the Fee read of a payment/transfer transaction (type 0 or 1234)
\* returns a length other than 8, hook() returns -1, signals reject, performs
\* no slot_set, and never reads the Amount slot.
C1_FeeReadFailureRejects ==
    (PaymentOrTransfer /\ FeeResult # 8 /\ pc \notin {"hook", "handle_lks_transfer"})
        => /\ pc = "returned"
           /\ ret = <<-1>>
           /\ SignalNames = <<"reject">>
           /\ Untouched
           /\ \A i \in 1..Len(calls) :
                 calls[i].fn = "otxn_slot" => calls[i].slot # S_AMOUNT

C1_Witness ==
    /\ tx_type = TX_TYPE_PAYMENT
    /\ FeeResult = 4
    /\ pc = "returned"
    /\ ret = <<-1>>
    /\ AmountContainsSignature

\* C2 as stated: a payment/transfer transaction whose Amount field contains
\* the signature has its Fee slot overwritten with 8 zero bytes and hook()
\* returns 0.
C2_Original ==
    (PaymentOrTransfer /\ AmountContainsSignature /\ pc = "returned")
        => (FeeZeroed /\ ret = <<0>>)

\* C2 as amended: a payment/transfer transaction whose Fee read returns
\* exactly 8 and whose Amount field contains the signature never panics, and
\* returns 0 with its Fee slot overwritten with 8 zero bytes.
C2_SignatureZeroesFee ==
    (PaymentOrTransfer /\ FeeResult = 8 /\ AmountContainsSignature)
        => /\ pc # "panicked"
           /\ PastDetector => detected
           /\ pc = "returned" => (FeeZeroed /\ ret = <<0>>)

C2_Witness ==
    /\ tx_type = LKS_TRANSFER_TYPE
    /\ FeeResult = 8
    /\ otxn.fields[S_FEE] = ToLeBytes(256)
    /\ AmountResult = AMOUNT_BUFFER_LEN
    /\ otxn.fields[S_AMOUNT][AMOUNT_BUFFER_LEN] = ByteS
    /\ pc = "returned"
    /\ FeeZeroed

\* C3: a payment/transfer transaction (Fee read of 8 bytes) whose Amount
\* field does not contain the signature gets past the detector, performs no
\* slot_set, leaves the Fee slot untouched and returns 0.
C3_NoSignatureLeavesFee ==
    (PaymentOrTransfer /\ FeeResult = 8 /\ ~AmountContainsSignature)
        => /\ pc # "panicked"
           /\ Untouched
           /\ pc = "returned" => ret = <<0>>

\* C4: for a type other than 0, 7, 8 and 1234, hook() returns 0 and signals
\* accept; its only host calls are otxn_type, the trace and that accept: no
\* otxn_slot, no slot_set.
C4_OtherTypesPassThrough ==
    (~PaymentOrTransfer /\ ~ExchangeOrder /\ pc # "hook")
        => /\ pc = "returned"
           /\ ret = <<0>>
           /\ CallNames = <<"otxn_type", "trace_u64", "accept">>
           /\ Untouched

C4_Witness ==
    /\ tx_type = 9
    /\ pc = "returned"
    /\ FeeResult # 8
    /\ AmountContainsSignature

C6_DetectorMatchesReference ==
    PastDetector => (pc # "panicked" /\ detected = AmountContainsSignature)

\* C7: every invocation returns a verdict: the non-returning panic handler
\* is never reached, for any type, fee read and amount read length 0..64.
C7_NeverPanics == pc # "panicked"

\* C8: an invocation that returns has issued exactly one terminal signal,
\* and it agrees with the verdict: 0 iff accept, -1 iff reject, and no other
\* verdict is produced.
C8_OneSignalMatchesVerdict ==
    /\ Len(Signals) <= 1
    /\ Len(Signals) = 1 => pc = "returned"
    /\ pc = "returned"
          => /\ Len(Signals) = 1
             /\ ret \in {<<0>>, <<-1>>}
             /\ (ret = <<0>>) <=> (SignalNames = <<"accept">>)
             /\ (ret = <<-1>>) <=> (SignalNames = <<"reject">>)

C8_Witness ==
    /\ pc = "returned"
    /\ ret = <<-1>>
    /\ SignalNames = <<"reject">>

\* C9 as stated: two payment/transfer invocations with the same type and
\* Amount field whose 8-byte fees differ produce the same verdict, the same
\* terminal signal and the same final Fee slot content.
C9_Original ==
    (Len(history) = 1 /\ pc = "returned")
        => /\ history[1].ret = ret
           /\ history[1].signals = SignalNames
           /\ history[1].fee_slot = slots[S_FEE]

\* C9 as amended: two such invocations end the same way (both return, or
\* both panic), with the same detection result, verdict and terminal signal;
\* when the signature is detected both leave 8 zero bytes in the Fee slot,
\* and when it is not, each leaves its own original fee there.
C9_FeeIndependence ==
    (Len(history) = 1 /\ Ended)
        => /\ history[1].pc = pc
           /\ history[1].detected = detected
           /\ history[1].ret = ret
           /\ history[1].signals = SignalNames
           /\ (pc = "returned" /\ detected)
                => /\ history[1].fee_slot = slots[S_FEE]
                   /\ slots[S_FEE] = Zeros(FEE_BUFFER_LEN)
           /\ (pc = "returned" /\ ~detected)
                => /\ slots[S_FEE] = otxn.fields[S_FEE]
                   /\ FromLeBytes(history[1].fee_slot) = history[1].original_fee
                   /\ history[1].fee_slot # slots[S_FEE]

C9_Witness ==
    /\ Len(history) = 1
    /\ pc = "returned"
    /\ detected
    /\ history[1].original_fee = 0
    /\ original_fee = 1
    /\ slots[S_FEE] = history[1].fee_slot

\* C10: the hook writes only the Fee slot (slot 1), only with 8 zero bytes
\* and at most once per invocation; the write precedes the accept signal and
\* the return, and never happens in an invocation that signals reject; the
\* Account, Destination and Amount slots are never written.
C10_OnlyFeeSlotWritten ==
    /\ Len(CallsOf("slot_set")) <= 1
    /\ \A i \in 1..Len(calls) :
          calls[i].fn = "slot_set"
             => /\ calls[i].slot = S_FEE
                /\ calls[i].data = Zeros(FEE_BUFFER_LEN)
                /\ calls[i].len = FEE_BUFFER_LEN
                /\ \A j \in 1..Len(calls) :
                      calls[j].fn \in {"accept", "reject"}
                         => (i < j /\ calls[j].fn = "accept")
    /\ \A s \in Slots \ {S_FEE} : slots[s] = otxn.fields[s]
    /\ missing \ {S_FEE} = otxn.missing \ {S_FEE}
    /\ IF CallsOf("slot_set") = <<>>
       THEN slots = otxn.fields /\ missing = otxn.missing
       ELSE slots[S_FEE] = Zeros(FEE_BUFFER_LEN) /\ S_FEE \notin missing
    /\ (pc = "returned" /\ ret = <<-1>>) => CallsOf("slot_set") = <<>>

C10_Witness ==
    /\ pc = "returned"
    /\ CallNames = <<"otxn_type", "trace_u64", "otxn_slot", "otxn_slot",
                     "slot_set", "trace_u64", "accept">>
    /\ otxn.fields[S_FEE] = ToLeBytes(1)
    /\ slots[S_FEE] = Zeros(FEE_BUFFER_LEN)

=============================================================================
